---- MODULE Spec2Model ----
(***************************************************************************)
(* A model of swb-ix: the rate-limited RPC client (src/app/client.rs) and  *)
(* the gateway failover loops of the two submission modes (src/swb.rs).    *)
(*                                                                         *)
(* Three specifications share the module's variables:                      *)
(*   FetchSpec     one call of AppClient::get_multiple_accounts            *)
(*   FailoverSpec  one run of the gateway failover loop, in either mode    *)
(*   BudgetSpec    the semaphore of AppClient, its acquiring operations    *)
(*                 and the background replenishing task                    *)
(***************************************************************************)
EXTENDS Integers, Sequences, FiniteSets, TLC

\* ------------------------------------------------------------------ bounds

\* Longest key list handed to get_multiple_accounts.
MaxKeys == 26

\* Largest explicit concurrency limit (Some(n)) handed to get_multiple_accounts.
MaxLimit == 2

\* Longest resolved gateway list.
MaxGateways == 10

\* Most operations of the client in flight at once.
MaxOps == 16

\* Account bytes range over 0..ByteMax.
ByteMax == 1

\* size_of::<PullFeedAccountData>() (utils.rs:332), scaled to the model's buffers.
RecordSize == 2

\* i128::MAX (utils.rs:50), scaled to the model's integer width.
I128_MAX == 15

\* The largest mantissa of a rust_decimal Decimal (96 bits), scaled likewise;
\* it is below I128_MAX as 2^96 - 1 is below 2^127 - 1.
DECIMAL_MAX == 7

\* Most responses (per oracle) in one gateway answer.
MaxResponses == 2

\* Most oracle keys of the queue.
MaxQueue == 9

\* Most oracle keys of the queue without an account or without a gateway.
MaxDefects == 2

\* ------------------------------------------------------- program constants

\* utils.rs:323,327,332: the discriminator takes the first 8 bytes.
DISCRIMINATOR_LEN == 8

\* utils.rs:53,131: the fixed decimal scale of submission values.
SUBMIT_SCALE == 18

\* client.rs:103  let rqs_rate = 15;
rqs_rate == 15

\* client.rs:169  const CHUNK_SIZE: usize = 5;
CHUNK_SIZE == 5

\* client.rs:194  limit.unwrap_or(5)
DefaultLimit == 5

\* swb.rs:309  &queue_gateways[retry + 8]
PerOracleOffset == 8

\* utils.rs:243  let instruction_index = 0;
instruction_index == 0

\* ---------------------------------------------------------------- variables

VARIABLES
    \* the semaphore of AppClient and the replenishing task
    available,          \* Semaphore::available_permits()
    held,               \* permits held by operations in flight (_permit guards alive)
    tickPc,             \* position of the replenishing task: "wait" | "add"
    to_add,             \* the task's local to_add, valid while tickPc = "add"
    waiting,            \* operations suspended in acquire(), a FIFO queue
    mark,               \* queue position of the waiter that is followed, 0 if none
    admitted,           \* operations admitted since the last refill (up to rqs_rate + 1)
    \* one call of get_multiple_accounts
    accounts_pubkey,    \* the input key list
    limit,              \* the Option<usize> limit
    gmaPc,              \* "entry" | "stream" | "done"
    chunked,            \* chunked_accounts_pubkey, in dispatch order
    nextChunk,          \* 1-based position of the stream's next undispatched chunk
    inProgress,         \* chunks whose RPC request is in flight
    failedChunks,       \* chunks whose RPC request returned Err (history)
    multiple_accounts,  \* chunk results as collected
    gmaResult,          \* the returned AppResult
    \* one run of the failover loop
    mode,               \* "consensus" | "per_oracle"
    queue_gateways,     \* the resolved gateway list
    gatewayUp,          \* the gateways (handles) that answer a request with Ok
    retry,              \* the loop's retry counter
    foPc,               \* "Attempting" | "Crossbar" | "Gateway" | "Succeeded" |
                        \* "Exhausted" | "Panicked"
    indexed,            \* the positions the loop indexed queue_gateways at (history)
    attempts,           \* the positions whose gateway received a request (history)
    response,           \* Some(the gateway whose response was kept), or None
    reported,           \* Some(the error logged when the loop gives up), or None
    crossbar,           \* the answers the crossbar may give to a fetch of the jobs
    \* one call of parse_swb_ignore_alignment
    data,               \* the account's byte buffer
    decResult,          \* None before the call, Some(outcome) after it
    \* per-oracle mode: gateway answer -> oracle responses -> submissions
    gw_responses,       \* price_signatures.responses: the success_value of each
    oracle_responses,   \* the Vec<OracleResponse> built from them (value of each)
    submissions,        \* the value of each Submission of the instruction
    subPc,              \* "fetched" | "built" | "encoded" | "Panicked"
    gw_fields,          \* price_signatures.responses: oracle_pubkey and signature of each
    response_fields,    \* oracle and signature of each OracleResponse built
    submit_ix,          \* None, or Some(the instruction of get_solana_submit_signatures_ix)
    \* consensus mode: one call of get_update_consensus_ix
    price_signatures,   \* the FetchSignaturesConsensusResponse
    consensus_ix,       \* None before the call, Some(outcome) after it
    \* one cycle of execute_pull_feed_submit_(consensus_)response
    cyPc,               \* the cycle's position, see CyPositions
    queue_oracle_keys,  \* queue.oracle_keys, as loaded from the queue account
    absentKeys,         \* oracle keys that have no account on chain
    noGatewayKeys,      \* oracle keys whose account has no gateway_uri
    malformedKeys,      \* oracle keys whose account data is no OracleAccountData
    gateway_keys,       \* the oracle_pubkey zipped with each resolved gateway (history)
    permits,            \* the client operations of the cycle whose _permit is alive
    requests,           \* the requests of the cycle that are in flight
    joinPc,             \* position of each branch of tokio::join!
    simulations         \* simulation requests sent in the cycle (history)

budgetVars == <<available, held, tickPc, to_add, waiting, mark, admitted>>
gmaVars == <<accounts_pubkey, limit, gmaPc, chunked, nextChunk, inProgress,
             failedChunks, multiple_accounts, gmaResult>>
foVars == <<mode, queue_gateways, gatewayUp, retry, foPc, indexed, attempts, response,
            reported, crossbar>>
decVars == <<data, decResult>>
subVars == <<gw_responses, oracle_responses, submissions, subPc, gw_fields,
             response_fields, submit_ix>>
consVars == <<price_signatures, consensus_ix>>
chainVars == <<queue_oracle_keys, absentKeys, noGatewayKeys, malformedKeys>>
cyVars == <<cyPc, chainVars, gateway_keys, permits, requests, joinPc, simulations>>
vars == <<budgetVars, gmaVars, foVars, decVars, subVars, consVars, cyVars>>

\* ------------------------------------------------------------ rate budget

\* A replenishing task that never finds anything to add.
ToAddNothing(available_permits) == 0

\* client.rs:118-122: the number of permits the replenishing task decides to add
\* from the available count it read.
ToAdd(available_permits) ==
    IF available_permits < rqs_rate THEN rqs_rate - available_permits ELSE 0

\* client.rs:104: Semaphore::new(rqs_rate); the task is spawned waiting on its
\* interval, no operation is in flight and none waits.
BudgetInit ==
    /\ available = rqs_rate
    /\ held = 0
    /\ waiting = 0
    /\ mark = 0
    /\ admitted = 0
    /\ tickPc = "wait"
    /\ to_add = 0

Min(a, b) == IF a <= b THEN a ELSE b

\* One more operation admitted since the last refill; the count stops one past
\* the capacity.
Admit(n) == Min(n + 1, rqs_rate + 1)

\* The queue position of the followed waiter once the first `served` waiters
\* have been granted their permit: 0 when it was among them.
Advance(position, served) ==
    IF position <= served THEN 0 ELSE position - served

\* Semaphore::add_permits(n), also the drop of a permit (n = 1): the permits go
\* to the queued waiters first, in queue order, and only the rest is added to
\* the available count. heldBefore is the number of permits held by operations
\* once the caller's own permit, if any, is given up.
AddPermits(n, heldBefore) ==
    LET served == Min(n, waiting)
    IN  /\ available' = available + (n - served)
        /\ waiting' = waiting - served
        /\ held' = heldBefore + served
        /\ mark' = Advance(mark, served)

\* client.rs:145,152,202: `let _permit = self.semaphore.acquire().await?` of
\* get_account, get_latest_blockhash and get_slot, with a permit available: the
\* operation takes it and goes on to its RPC request.
OpAcquire ==
    /\ held + waiting < MaxOps
    /\ available > 0
    /\ available' = available - 1
    /\ held' = held + 1
    /\ admitted' = Admit(admitted)
    /\ UNCHANGED <<waiting, mark, tickPc, to_add>>
    /\ UNCHANGED <<gmaVars, foVars, decVars, subVars, consVars, cyVars>>

\* client.rs:145,152,202: acquire().await with no permit available: the
\* operation is queued behind the earlier waiters and suspended before its
\* RPC request. The operation may be the one the model follows (mark).
OpWait ==
    /\ held + waiting < MaxOps
    /\ available = 0
    /\ waiting' = waiting + 1
    /\ \E follow \in BOOLEAN :
          mark' = IF follow /\ mark = 0 THEN waiting + 1 ELSE mark
    /\ UNCHANGED <<available, held, admitted, tickPc, to_add>>
    /\ UNCHANGED <<gmaVars, foVars, decVars, subVars, consVars, cyVars>>

\* client.rs:146-149,153-156,203-206: the RPC call returns, Ok or Err, the
\* function returns and _permit is dropped, which gives the permit back. A
\* waiter that receives the permit is admitted.
OpFinish ==
    /\ held > 0
    /\ \E rpcOk \in BOOLEAN : AddPermits(1, held - 1)
    /\ admitted' = IF waiting > 0 THEN Admit(admitted) ELSE admitted
    /\ UNCHANGED <<tickPc, to_add>>
    /\ UNCHANGED <<gmaVars, foVars, decVars, subVars, consVars, cyVars>>

\* client.rs:114-122: the interval fires, the task reads available_permits()
\* and computes to_add.
TickRead ==
    /\ tickPc = "wait"
    /\ to_add' = ToAdd(available)
    /\ tickPc' = "add"
    /\ UNCHANGED <<available, held, waiting, mark, admitted>>
    /\ UNCHANGED <<gmaVars, foVars, decVars, subVars, consVars, cyVars>>

\* client.rs:125-128: add_permits(to_add) when to_add > 0, then back to the
\* interval. The operations admitted from here on belong to the new window.
TickAdd ==
    /\ tickPc = "add"
    /\ IF to_add > 0
         THEN AddPermits(to_add, held)
         ELSE UNCHANGED <<available, held, waiting, mark>>
    /\ admitted' = IF to_add > 0 THEN Min(to_add, waiting) ELSE 0
    /\ tickPc' = "wait"
    /\ to_add' = 0
    /\ UNCHANGED <<gmaVars, foVars, decVars, subVars, consVars, cyVars>>

\* ------------------------------------------------- get_multiple_accounts

\* Option<T>: None is the empty sequence, Some(x) the sequence of x alone. An
\* Option<Account> is Some(k) for the account stored under key k.
None == <<>>
Some(x) == <<x>>

\* No call of get_multiple_accounts is under way.
GmaIdle ==
    /\ accounts_pubkey = <<>>
    /\ limit = None
    /\ gmaPc = "done"
    /\ chunked = <<>>
    /\ nextChunk = 1
    /\ inProgress = {}
    /\ failedChunks = {}
    /\ multiple_accounts = <<>>
    /\ gmaResult = [ok |-> TRUE, accounts |-> <<>>]

\* The key list of length n: n distinct public keys.
KeyList(n) == [i \in 1..n |-> i]

\* client.rs:171-178: as_chunks::<CHUNK_SIZE>() gives the full chunks and the
\* remainder; the remainder is pushed after the full chunks, also when empty.
AsChunks(keys) ==
    LET full == Len(keys) \div CHUNK_SIZE
        chunks == [c \in 1..full |->
                      SubSeq(keys, (c - 1) * CHUNK_SIZE + 1, c * CHUNK_SIZE)]
        remainder == SubSeq(keys, full * CHUNK_SIZE + 1, Len(keys))
    IN  Append(chunks, remainder)

\* A failed chunk replaced by nothing at all.
DefaultAbsentDropped(keys) == <<>>

\* client.rs:187-190: the replacement of a failed chunk, one None per key.
DefaultAbsent(keys) == [i \in 1..Len(keys) |-> None]

\* The RPC endpoint's getMultipleAccounts on success: one entry per key, in the
\* order of the request; None for a key that has no account, else the account
\* (named by its key).
RpcAccounts(keys) ==
    [i \in 1..Len(keys) |-> IF keys[i] \in absentKeys THEN None ELSE Some(keys[i])]

\* client.rs:181-193: the value of one chunk's future.
ChunkResult(keys, rpcOk) ==
    IF rpcOk THEN RpcAccounts(keys) ELSE DefaultAbsent(keys)

\* client.rs:196: into_iter().flatten().collect()
RECURSIVE Flatten(_)
Flatten(seqs) ==
    IF seqs = <<>> THEN <<>> ELSE Head(seqs) \o Flatten(Tail(seqs))

\* client.rs:194: buffer_unordered(limit.unwrap_or(5))
UnwrapLimit(l) == IF l = None THEN DefaultLimit ELSE l[1]

\* A fan-out that pulls from the stream whatever is already in progress.
CanDispatchUnbounded == nextChunk <= Len(chunked)

\* buffer_unordered pulls the next future from the stream while fewer than
\* its limit are in progress.
CanDispatch ==
    /\ nextChunk <= Len(chunked)
    /\ Cardinality(inProgress) < UnwrapLimit(limit)

\* client.rs:158-162: a call with a key list and a limit.
GmaInit ==
    /\ accounts_pubkey \in {KeyList(n) : n \in 0..MaxKeys}
    /\ limit \in {None} \cup {Some(n) : n \in 0..MaxLimit}
    /\ gmaPc = "entry"
    /\ chunked = <<>>
    /\ nextChunk = 1
    /\ inProgress = {}
    /\ failedChunks = {}
    /\ multiple_accounts = <<>>
    /\ gmaResult = [ok |-> FALSE, accounts |-> <<>>]

\* client.rs:163-165: the empty key list returns Ok(vec![]) at once.
GmaEmpty ==
    /\ gmaPc = "entry"
    /\ Len(accounts_pubkey) = 0
    /\ gmaResult' = [ok |-> TRUE, accounts |-> <<>>]
    /\ gmaPc' = "done"
    /\ UNCHANGED <<accounts_pubkey, limit, chunked, nextChunk, inProgress,
                   failedChunks, multiple_accounts>>
    /\ UNCHANGED budgetVars
    /\ UNCHANGED <<foVars, decVars, subVars, consVars, cyVars>>

\* client.rs:167-180: one permit is acquired for the call, the keys are
\* chunked and the stream of chunk futures is built.
GmaAcquire ==
    /\ gmaPc = "entry"
    /\ Len(accounts_pubkey) # 0
    /\ available > 0
    /\ available' = available - 1
    /\ held' = held + 1
    /\ admitted' = Admit(admitted)
    /\ chunked' = AsChunks(accounts_pubkey)
    /\ gmaPc' = "stream"
    /\ UNCHANGED <<accounts_pubkey, limit, nextChunk, inProgress, failedChunks,
                   multiple_accounts, gmaResult>>
    /\ UNCHANGED <<waiting, mark, tickPc, to_add>>
    /\ UNCHANGED <<foVars, decVars, subVars, consVars, cyVars>>

\* client.rs:180-181,194: buffer_unordered takes the next chunk off the stream
\* and its RPC request goes out.
GmaDispatch ==
    /\ gmaPc = "stream"
    /\ CanDispatch
    /\ inProgress' = inProgress \cup {nextChunk}
    /\ nextChunk' = nextChunk + 1
    /\ UNCHANGED <<accounts_pubkey, limit, gmaPc, chunked, failedChunks,
                   multiple_accounts, gmaResult>>
    /\ UNCHANGED budgetVars
    /\ UNCHANGED <<foVars, decVars, subVars, consVars, cyVars>>

\* client.rs:181-194: the request of an in-flight chunk completes, Ok or Err;
\* buffer_unordered yields its value and collect() appends it. Any in-flight
\* chunk may be the one that completes.
GmaChunkDone ==
    /\ gmaPc = "stream"
    /\ ~CanDispatch
    /\ \E c \in inProgress, rpcOk \in BOOLEAN :
          /\ multiple_accounts' =
                 Append(multiple_accounts, ChunkResult(chunked[c], rpcOk))
          /\ failedChunks' = IF rpcOk THEN failedChunks ELSE failedChunks \cup {c}
          /\ inProgress' = inProgress \ {c}
    /\ UNCHANGED <<accounts_pubkey, limit, gmaPc, chunked, nextChunk, gmaResult>>
    /\ UNCHANGED budgetVars
    /\ UNCHANGED <<foVars, decVars, subVars, consVars, cyVars>>

\* client.rs:194-199: the stream is exhausted and nothing is in progress:
\* collect() ends, the chunk results are flattened and returned; _permit is
\* dropped.
GmaReturn ==
    /\ gmaPc = "stream"
    /\ nextChunk > Len(chunked)
    /\ inProgress = {}
    /\ gmaResult' = [ok |-> TRUE, accounts |-> Flatten(multiple_accounts)]
    /\ gmaPc' = "done"
    /\ AddPermits(1, held - 1)
    /\ UNCHANGED <<accounts_pubkey, limit, chunked, nextChunk, inProgress,
                   failedChunks, multiple_accounts>>
    /\ UNCHANGED <<admitted, tickPc, to_add>>
    /\ UNCHANGED <<foVars, decVars, subVars, consVars, cyVars>>


\* ------------------------------------------------------ gateway failover

\* The resolved gateway list of length n: n gateway handles.
GatewayList(n) == [i \in 1..n |-> i]

\* swb.rs:129 (consensus mode) and swb.rs:309 (per-oracle mode): the position
\* (0-based) at which the loop indexes queue_gateways.
GatewayIndex(m, r) == IF m = "consensus" THEN r ELSE r + PerOracleOffset

\* A loop that forgets to advance its counter.
NextRetryStuck(r) == r

\* swb.rs:138 and swb.rs:317: retry += 1
NextRetry(r) == r + 1

\* utils.rs:316-317 and utils.rs:121-122: the error a failed request to a
\* gateway comes back with.
GatewayError(gateway) == <<"ParsingError", "gateway", gateway>>

\* utils.rs:287-290 and utils.rs:100-103: the error a failed fetch of the jobs
\* from the crossbar comes back with.
CrossbarError == <<"ParsingError", "crossbar", 0>>

\* utils.rs:292 and utils.rs:105: the error of `?` on jobs that do not
\* deserialize into Vec<OracleJob>.
SerdeJsonError == <<"SerdeJsonError", "jobs", 0>>

\* What the crossbar may answer to a fetch of the feed's jobs: a document with
\* a sound "jobs" entry, no answer, a document without a "jobs" entry, and a
\* document whose "jobs" entry is no list of jobs.
CrossbarAnswers == {"jobs", "down", "nojobs", "badjobs"}

\* The crossbars of a run: one that always answers in the same way, and one
\* that may answer in any way from one fetch to the next.
Crossbars == {{answer} : answer \in CrossbarAnswers} \cup {CrossbarAnswers}

\* swb.rs:134,145 and swb.rs:313,324: the error logged when the loop gives up
\* is the app_error bound by the match arm of the current attempt.
ReportedError(earlier, app_error) == Some(app_error)

\* swb.rs:105 and swb.rs:285: max_retry = queue_gateways.len()
max_retry == Len(queue_gateways)

\* No failover loop is under way.
FoLoopIdle ==
    /\ queue_gateways = <<>>
    /\ gatewayUp = {}
    /\ retry = 0
    /\ foPc = "Exhausted"
    /\ indexed = <<>>
    /\ attempts = <<>>
    /\ response = None
    /\ reported = None
    /\ crossbar = {"jobs"}

FoIdle == mode = "consensus" /\ FoLoopIdle

\* swb.rs:104-126 and swb.rs:284-306: the loop is entered with retry = 0 and
\* the resolved gateway list; each gateway either answers requests or fails
\* them.
FoInit ==
    /\ mode \in {"consensus", "per_oracle"}
    /\ queue_gateways \in {GatewayList(n) : n \in 0..MaxGateways}
    /\ gatewayUp \in SUBSET {queue_gateways[i] : i \in 1..Len(queue_gateways)}
    /\ retry = 0
    /\ foPc = "Attempting"
    /\ indexed = <<>>
    /\ attempts = <<>>
    /\ response = None
    /\ reported = None
    /\ crossbar \in Crossbars

\* swb.rs:129 and swb.rs:309: indexing the list at or past its length panics.
FoIndexPanic ==
    /\ foPc = "Attempting"
    /\ GatewayIndex(mode, retry) >= Len(queue_gateways)
    /\ indexed' = Append(indexed, GatewayIndex(mode, retry))
    /\ foPc' = "Panicked"
    /\ UNCHANGED <<mode, queue_gateways, gatewayUp, retry, attempts, response, reported,
                   crossbar>>
    /\ UNCHANGED <<budgetVars, gmaVars, decVars, subVars, consVars, cyVars>>

\* ---------------------------------------------------------- feed decoder

\* PullFeedAccountData::DISCRIMINATOR (utils.rs:327): 8 fixed bytes.
DISCRIMINATOR == <<1, 0, 1, 1, 0, 1, 0, 0>>

\* The byte buffers of every length up to n.
Buffers(n) == UNION {[1..len -> 0..ByteMax] : len \in 0..n}

\* A decoder that skips the comparison with the discriminator.
ParseSwbAnyDiscriminator(bytes) ==
    IF Len(bytes) < DISCRIMINATOR_LEN
      THEN [kind |-> "Err", error |-> "SwitchboardInvalidAccount",
            stage |-> "length", feed |-> <<>>]
    ELSE IF Len(bytes) < DISCRIMINATOR_LEN + RecordSize
      THEN [kind |-> "Panic", error |-> "slice index out of range",
            stage |-> "slice", feed |-> <<>>]
    ELSE [kind |-> "Ok", error |-> "", stage |-> "read",
          feed |-> SubSeq(bytes, DISCRIMINATOR_LEN + 1, DISCRIMINATOR_LEN + RecordSize)]

\* utils.rs:322-337: parse_swb_ignore_alignment. stage is the last step the
\* call reached: the length check (323), the discriminator check (327), the
\* slice of the record's bytes (332) or the unaligned read of the record (331).
\* A slice past the end of the buffer panics. The read of a slice of exactly
\* the record's size succeeds.
ParseSwb(bytes) ==
    IF Len(bytes) < DISCRIMINATOR_LEN
      THEN [kind |-> "Err", error |-> "SwitchboardInvalidAccount",
            stage |-> "length", feed |-> <<>>]
    ELSE IF SubSeq(bytes, 1, DISCRIMINATOR_LEN) # DISCRIMINATOR
      THEN [kind |-> "Err", error |-> "SwitchboardInvalidAccount",
            stage |-> "discriminator", feed |-> <<>>]
    ELSE IF Len(bytes) < DISCRIMINATOR_LEN + RecordSize
      THEN [kind |-> "Panic", error |-> "slice index out of range",
            stage |-> "slice", feed |-> <<>>]
    ELSE [kind |-> "Ok", error |-> "", stage |-> "read",
          feed |-> SubSeq(bytes, DISCRIMINATOR_LEN + 1, DISCRIMINATOR_LEN + RecordSize)]

\* No decoding is under way.
DecIdle ==
    /\ data = <<>>
    /\ decResult = Some(ParseSwb(<<>>))

\* swb.rs:29-32: the decoder is handed the bytes of the feed account: any
\* buffer, up to one byte longer than discriminator and record.
DecInit ==
    /\ data \in Buffers(DISCRIMINATOR_LEN + RecordSize + 1)
    /\ decResult = None

\* utils.rs:322-337: the call.
DecParse ==
    /\ decResult = None
    /\ decResult' = Some(ParseSwb(data))
    /\ UNCHANGED data
    /\ UNCHANGED <<budgetVars, gmaVars, foVars, subVars, consVars, cyVars>>

\* ------------------------------------------- per-oracle submission values

\* A gateway's success_value string: a decimal integer, or text that is none
\* (the empty string of a failed sample).
IntString(n) == <<"int", n>>
NotANumber == <<"text", 0>>

\* utils.rs:128: x.success_value.parse::<i128>().ok(): the integer when the
\* string is one in the range of i128.
ParseI128(str) ==
    IF str[1] = "int" /\ -(I128_MAX + 1) <= str[2] /\ str[2] <= I128_MAX
      THEN Some(str[2]) ELSE None

\* Decimal::from_i128_with_scale (utils.rs:131) panics when the number does
\* not fit the 96-bit mantissa of a Decimal.
FitsDecimal(n) == -DECIMAL_MAX <= n /\ n <= DECIMAL_MAX

\* utils.rs:128-132: the value of the OracleResponse built from one gateway
\* response: None, or Some(Decimal of the parsed mantissa at scale 18). Only
\* called on strings whose number fits a Decimal.
BuildValue(str) ==
    IF ParseI128(str) = None
      THEN None
      ELSE Some([mantissa |-> ParseI128(str)[1], scale |-> SUBMIT_SCALE])

\* utils.rs:131: whether building the value panics.
BuildPanics(str) ==
    ParseI128(str) # None /\ ~FitsDecimal(ParseI128(str)[1])

RECURSIVE Pow10(_)
Pow10(e) == IF e = 0 THEN 1 ELSE 10 * Pow10(e - 1)

\* Decimal::rescale (utils.rs:53): the same number at the new scale; scaling
\* up stops short of a mantissa that would not fit, scaling down rounds half
\* away from zero.
RECURSIVE Rescale(_, _)
Rescale(d, scale) ==
    IF d.scale = scale \/ d.mantissa = 0
      THEN [mantissa |-> d.mantissa, scale |-> scale]
    ELSE IF d.scale < scale
      THEN IF FitsDecimal(d.mantissa * 10)
             THEN Rescale([mantissa |-> d.mantissa * 10, scale |-> d.scale + 1], scale)
             ELSE d
    ELSE LET p == Pow10(d.scale - scale)
             a == IF d.mantissa < 0 THEN -d.mantissa ELSE d.mantissa
             q == (a + p \div 2) \div p
         IN  [mantissa |-> IF d.mantissa < 0 THEN -q ELSE q, scale |-> scale]

\* An encoder whose default value is zero.
SubmissionValueDefaultZero(value) ==
    IF value = None THEN 0 ELSE Rescale(value[1], SUBMIT_SCALE).mantissa

\* utils.rs:50-55: the value of the Submission encoded from one OracleResponse.
SubmissionValue(value) ==
    IF value = None THEN I128_MAX ELSE Rescale(value[1], SUBMIT_SCALE).mantissa

\* The oracle_pubkey string of a gateway response: the hex of an oracle's key,
\* or text that is not the hex of 32 bytes.
HexKey(oracle) == <<"hex", oracle>>
BadHex == <<"junk", 0>>

\* utils.rs:135-140: hex::decode(oracle_pubkey).unwrap().try_into().unwrap():
\* Some(key), or None where an unwrap panics.
DecodeOracle(str) == IF str[1] = "hex" THEN Some(str[2]) ELSE None

\* The signature string of a gateway response: the base64 of the 64 bytes of
\* a signature, or text that is not.
Base64Signature(sig) == <<"base64", sig>>
BadBase64 == <<"junk", 0>>

\* utils.rs:142-146: base64.decode(signature).unwrap_or_default()
\* .try_into().unwrap_or([0; 64]): the bytes, or 64 zero bytes.
DecodeSignature(str) ==
    IF str[1] = "base64" THEN <<"signature", str[2]>> ELSE <<"signature", 0>>

\* AccountMeta::new(pubkey, false) and AccountMeta::new_readonly(pubkey, false).
AccountMetaNew(pubkey) ==
    [pubkey |-> pubkey, is_signer |-> FALSE, is_writable |-> TRUE]
AccountMetaReadonly(pubkey) ==
    [pubkey |-> pubkey, is_signer |-> FALSE, is_writable |-> FALSE]

\* The key of an oracle and OracleAccountData::stats_key(oracle).
OracleKey(oracle) == <<"oracle", oracle>>
StatsKey(oracle) == <<"stats", oracle>>

\* to_account_metas(None) of an accounts struct: one meta per field, in the
\* order of the fields.
ToAccountMetas(fields) ==
    [i \in 1..Len(fields) |-> [pubkey |-> <<fields[i], 0>>]]

\* utils.rs:71-81: the fields of PullFeedSubmitResponse.
SubmitResponseFields ==
    <<"feed", "queue", "program_state", "recent_slothashes", "payer",
      "system_program", "reward_vault", "token_program", "token_mint">>

\* Oracle accounts with the stats account before its oracle.
BuildOracleAccountsStatsFirst(oracles) ==
    [i \in 1..(2 * Len(oracles)) |->
        IF i % 2 = 1 THEN AccountMetaNew(StatsKey(oracles[(i + 1) \div 2]))
                     ELSE AccountMetaReadonly(OracleKey(oracles[i \div 2]))]

\* utils.rs:23-33: build_oracle_accounts: for each oracle, in order, its
\* read-only account and then its writable stats account.
BuildOracleAccounts(oracles) ==
    [i \in 1..(2 * Len(oracles)) |->
        IF i % 2 = 1 THEN AccountMetaReadonly(OracleKey(oracles[(i + 1) \div 2]))
                     ELSE AccountMetaNew(StatsKey(oracles[i \div 2]))]

\* No per-oracle submission is under way.
SubIdle ==
    /\ gw_responses = <<>>
    /\ oracle_responses = <<>>
    /\ submissions = <<>>
    /\ subPc = "encoded"
    /\ gw_fields = <<>>
    /\ response_fields = <<>>
    /\ submit_ix = None

\* The success_value strings a gateway may send: no number, and every integer
\* from just below i128::MIN to just above i128::MAX.
SuccessValues ==
    {NotANumber} \cup {IntString(n) : n \in -(I128_MAX + 2)..(I128_MAX + 1)}

\* The oracle_pubkey and signature fields of n gateway responses: the oracles
\* in rising or in falling order with sound fields, and the same with the
\* signature or the oracle_pubkey of the first response unsound.
GatewayFields(n) ==
    LET Sound(order) ==
            [i \in 1..n |-> [oracle_pubkey |-> HexKey(order[i]),
                             signature |-> Base64Signature(order[i])]]
        rising == [i \in 1..n |-> i]
        falling == [i \in 1..n |-> n + 1 - i]
    IN  {Sound(rising), Sound(falling)}
          \cup (IF n = 0 THEN {}
                ELSE {[Sound(rising) EXCEPT ![1].signature = BadBase64],
                      [Sound(falling) EXCEPT ![1].oracle_pubkey = BadHex]})

\* utils.rs:112-122: the gateway has answered with its responses.
SubInit ==
    /\ gw_responses \in UNION {[1..n -> SuccessValues] : n \in 0..MaxResponses}
    /\ gw_fields \in GatewayFields(Len(gw_responses))
    /\ oracle_responses = <<>>
    /\ response_fields = <<>>
    /\ submissions = <<>>
    /\ submit_ix = None
    /\ subPc = "fetched"

\* utils.rs:131,135-140: the map over the responses panics at the first one
\* whose number does not fit a Decimal or whose oracle_pubkey does not decode.
OracleResponsesPanic(responses, fields) ==
    \E i \in 1..Len(responses) :
        \/ BuildPanics(responses[i])
        \/ DecodeOracle(fields[i].oracle_pubkey) = None

\* utils.rs:128-132: the value of every OracleResponse, in order.
OracleResponseValues(responses) ==
    [i \in 1..Len(responses) |-> BuildValue(responses[i])]

\* utils.rs:135-146: the oracle and the signature of every OracleResponse, in
\* order.
OracleResponseFields(fields) ==
    [i \in 1..Len(fields) |->
        [oracle |-> DecodeOracle(fields[i].oracle_pubkey)[1],
         signature |-> DecodeSignature(fields[i].signature)]]

\* utils.rs:124-150: get_oracle_submissions maps the gateway's responses to
\* OracleResponse values; a number that does not fit a Decimal panics.
SubBuild ==
    /\ subPc = "fetched"
    /\ IF OracleResponsesPanic(gw_responses, gw_fields)
         THEN /\ subPc' = "Panicked"
              /\ UNCHANGED <<oracle_responses, response_fields>>
         ELSE /\ subPc' = "built"
              /\ oracle_responses' = OracleResponseValues(gw_responses)
              /\ response_fields' = OracleResponseFields(gw_fields)
    /\ UNCHANGED <<gw_responses, gw_fields, submissions, submit_ix>>
    /\ UNCHANGED <<budgetVars, gmaVars, foVars, decVars, consVars, cyVars>>

\* utils.rs:35-89: get_solana_submit_signatures_ix: one Submission per
\* response, in order (43-63), the oracle keys of the responses, in order
\* (65-66), and the instruction: the submissions as data, the accounts of
\* PullFeedSubmitResponse followed by the oracle accounts (69-88).
GetSolanaSubmitSignaturesIx(values, fields) ==
    LET oracle_keys == [i \in 1..Len(fields) |-> fields[i].oracle]
    IN  [program |-> "on_demand",
         submissions |-> [i \in 1..Len(values) |->
                            [value |-> SubmissionValue(values[i]),
                             signature |-> fields[i].signature]],
         accounts |-> ToAccountMetas(SubmitResponseFields)
                          \o BuildOracleAccounts(oracle_keys)]

\* swb.rs:344-345: the instruction is built from the oracle responses.
SubEncode ==
    /\ subPc = "built"
    /\ submissions' =
           [i \in 1..Len(oracle_responses) |-> SubmissionValue(oracle_responses[i])]
    /\ submit_ix' = Some(GetSolanaSubmitSignaturesIx(oracle_responses, response_fields))
    /\ subPc' = "encoded"
    /\ UNCHANGED <<gw_responses, oracle_responses, gw_fields, response_fields>>
    /\ UNCHANGED <<budgetVars, gmaVars, foVars, decVars, consVars, cyVars>>

\* ------------------------------------------- consensus-mode instructions

\* The ways one oracle response of a consensus answer can be malformed: it has
\* no feed response to take the oracle key from, or one of its encoded fields
\* does not decode to the bytes expected.
Defects ==
    {"none", "no_feed_response", "oracle_pubkey", "eth_address", "signature",
     "checksum"}

\* AppResult values.
Ok(v) == [kind |-> "Ok", value |-> v, error |-> ""]
Err(e) == [kind |-> "Err", value |-> <<>>, error |-> e]
Panic(e) == [kind |-> "Panic", value |-> <<>>, error |-> e]

\* Values extracted with the unparsable ones left out.
ExtractConsensusValuesParsedOnly(ps) ==
    LET RECURSIVE Keep(_)
        Keep(ms) ==
            IF ms = <<>> THEN <<>>
            ELSE IF ParseI128(Head(ms)) = None THEN Keep(Tail(ms))
            ELSE <<ParseI128(Head(ms))[1]>> \o Keep(Tail(ms))
    IN  Keep(ps.median_responses)

\* utils.rs:155-161: extract_consensus_values: one value per median response,
\* in order, i128::MAX where the string is no i128.
ExtractConsensusValues(ps) ==
    [j \in 1..Len(ps.median_responses) |->
        IF ParseI128(ps.median_responses[j]) = None
          THEN I128_MAX ELSE ParseI128(ps.median_responses[j])[1]]

\* The first position of a sequence that satisfies a test, 0 if none does.
FirstWhere(seq, Test(_)) ==
    IF \E j \in 1..Len(seq) : Test(seq[j])
      THEN CHOOSE j \in 1..Len(seq) :
               Test(seq[j]) /\ \A q \in 1..(j - 1) : ~Test(seq[q])
      ELSE 0

\* utils.rs:163-183: extract_oracle_keys: the key of every oracle response, in
\* order, or the error of the first response whose key cannot be taken.
ExtractOracleKeys(ps) ==
    LET Bad(r) == r.defect \in {"no_feed_response", "oracle_pubkey"}
    IN  IF FirstWhere(ps.oracle_responses, Bad) # 0
          THEN Err("ParsingError")
          ELSE Ok([j \in 1..Len(ps.oracle_responses) |-> ps.oracle_responses[j].oracle])

\* utils.rs:207-212: the signature tuple of one oracle response.
SecpSignature(r) == <<"secp", r.oracle>>

\* A batch builder that leaves out the responses that do not decode.
BuildSecpSignaturesSkipBad(ps) ==
    LET Sound(r) == r.defect \notin {"eth_address", "signature", "checksum"}
        kept == SelectSeq(ps.oracle_responses, Sound)
    IN  Ok([j \in 1..Len(kept) |-> SecpSignature(kept[j])])

\* utils.rs:185-215: build_secp_signatures: the tuple of every oracle response,
\* in order, or the error of the first response with a field that does not
\* decode.
BuildSecpSignatures(ps) ==
    LET Bad(r) == r.defect \in {"eth_address", "signature", "checksum"}
    IN  IF FirstWhere(ps.oracle_responses, Bad) # 0
          THEN Err("ParsingError")
          ELSE Ok([j \in 1..Len(ps.oracle_responses) |->
                      SecpSignature(ps.oracle_responses[j])])

\* utils.rs:244-252: the call of
\* Secp256k1InstructionUtils::build_secp256k1_instruction and the mapping of
\* its error. The library is no part of the program: whether it refuses a
\* batch is an input of the call, whatever the batch holds.
BuildSecpIx(signatures, refused) ==
    IF refused
      THEN Err("ParsingError")
      ELSE Ok([program |-> "secp256k1", signatures |-> signatures])

\* utils.rs:217-223: build_consensus_instruction_accounts: the feed
\* (writable), the oracle (read-only) and the oracle's stats account (writable).
BuildConsensusInstructionAccounts(oracle) ==
    <<AccountMetaNew(<<"feed", 0>>),
      AccountMetaReadonly(OracleKey(oracle)),
      AccountMetaNew(StatsKey(oracle))>>

\* utils.rs:261-270: the fields of PullFeedSubmitResponseConsensus.
ConsensusResponseFields ==
    <<"queue", "program_state", "recent_slothashes", "payer", "system_program",
      "reward_vault", "token_program", "token_mint">>

\* A submission anchored at the last oracle of the batch.
AnchorOracleLast(oracle_keys) == oracle_keys[Len(oracle_keys)]

\* utils.rs:254: oracle_keys[instruction_index]
AnchorOracle(oracle_keys) == oracle_keys[instruction_index + 1]

\* utils.rs:225-276: get_update_consensus_ix; refused is the verdict of the
\* library on the signature batch.
GetUpdateConsensusIx(ps, refused) ==
    LET consensus_values == ExtractConsensusValues(ps)
        oracle_keys == ExtractOracleKeys(ps)
        secp_signatures == BuildSecpSignatures(ps)
        secp_ix == BuildSecpIx(secp_signatures.value, refused)
    IN  IF oracle_keys.kind = "Err" THEN oracle_keys
        ELSE IF secp_signatures.kind = "Err" THEN secp_signatures
        ELSE IF secp_ix.kind = "Err" THEN secp_ix
        ELSE IF Len(oracle_keys.value) <= instruction_index
          THEN Panic("index out of bounds")
        ELSE Ok(<<secp_ix.value,
                  [program |-> "on_demand",
                   values |-> consensus_values,
                   accounts |->
                       ToAccountMetas(ConsensusResponseFields)
                         \o BuildConsensusInstructionAccounts(
                                AnchorOracle(oracle_keys.value))]>>)

\* No consensus instruction is being built.
ConsIdle ==
    /\ price_signatures = [median_responses |-> <<>>, oracle_responses |-> <<>>]
    /\ consensus_ix = Some(Err("ParsingError"))

\* The value strings of median responses the model draws from.
MedianValues ==
    {NotANumber, IntString(0), IntString(I128_MAX - 1), IntString(I128_MAX + 1)}

\* swb.rs:150-165: a gateway has answered with an attestation: any median
\* responses, any oracle responses.
ConsInit ==
    /\ price_signatures \in
          [median_responses :
               UNION {[1..n -> MedianValues] : n \in 0..MaxResponses},
           oracle_responses :
               UNION {[1..n -> [oracle : 1..MaxResponses, defect : Defects]] :
                          n \in 0..MaxResponses}]
    /\ consensus_ix = None

\* utils.rs:225-276: the call.
ConsBuild ==
    /\ consensus_ix = None
    /\ \E refused \in BOOLEAN :
          consensus_ix' = Some(GetUpdateConsensusIx(price_signatures, refused))
    /\ UNCHANGED price_signatures
    /\ UNCHANGED <<budgetVars, gmaVars, foVars, decVars, subVars, cyVars>>

\* ------------------------------------------------- one pass of the loop

\* The attestations a gateway may answer with in a run of the loop: one median value
\* with no oracle response, a sound one, or one that does not decode.
CycleAttestations ==
    {[median_responses |-> <<IntString(0)>>, oracle_responses |-> o] :
        o \in {<<>>,
               <<[oracle |-> 1, defect |-> "none"]>>,
               <<[oracle |-> 1, defect |-> "signature"]>>}}

\* The answers a gateway may give in per-oracle mode in a run of the loop: no response,
\* one sound response, one whose number does not fit a Decimal, and one whose
\* oracle_pubkey is not hex.
CycleAnswers ==
    {[responses |-> <<>>, fields |-> <<>>],
     [responses |-> <<IntString(0)>>,
      fields |-> <<[oracle_pubkey |-> HexKey(1), signature |-> Base64Signature(1)]>>],
     [responses |-> <<IntString(DECIMAL_MAX + 1)>>,
      fields |-> <<[oracle_pubkey |-> HexKey(1), signature |-> Base64Signature(1)]>>],
     [responses |-> <<IntString(0)>>,
      fields |-> <<[oracle_pubkey |-> BadHex, signature |-> Base64Signature(1)]>>]}

\* swb.rs:135-150 and swb.rs:314-329: the Err arm of the match: retry is
\* incremented; the loop continues while retry < max_retry, else the error of
\* this pass is logged and the function returns.
FoFail(app_error) ==
    /\ retry' = NextRetry(retry)
    /\ foPc' = IF NextRetry(retry) < max_retry THEN "Attempting" ELSE "Exhausted"
    /\ reported' = IF NextRetry(retry) < max_retry
                     THEN reported
                     ELSE ReportedError(reported, app_error)

\* swb.rs:129,134 with utils.rs:283-289, and swb.rs:309,313 with
\* utils.rs:96-102: a pass indexes the list and calls the fetch function,
\* which first asks the crossbar for the jobs of the feed and awaits it.
FoCrossbarSend ==
    /\ foPc = "Attempting"
    /\ GatewayIndex(mode, retry) < Len(queue_gateways)
    /\ indexed' = Append(indexed, GatewayIndex(mode, retry))
    /\ foPc' = "Crossbar"
    /\ requests' = requests \cup {"crossbar"}
    /\ UNCHANGED <<mode, queue_gateways, gatewayUp, retry, attempts, response, reported,
                   crossbar>>
    /\ UNCHANGED <<cyPc, chainVars, gateway_keys, permits, joinPc, simulations>>
    /\ UNCHANGED <<budgetVars, gmaVars, decVars, subVars, consVars>>

\* utils.rs:287-317 and utils.rs:100-122: the crossbar has answered. A failed
\* fetch is an Err of the pass (290, 103); a document without "jobs" panics at
\* the unwrap and jobs that do not deserialize are an Err of the pass (292,
\* 105); with sound jobs the request goes to the gateway, which is awaited.
FoCrossbarDone ==
    /\ foPc = "Crossbar"
    /\ \E answer \in crossbar :
          CASE answer = "jobs" ->
                  /\ foPc' = "Gateway"
                  /\ attempts' = Append(attempts, GatewayIndex(mode, retry))
                  /\ UNCHANGED <<retry, reported>>
            [] answer = "nojobs" ->
                  /\ foPc' = "Panicked"
                  /\ UNCHANGED <<retry, reported, attempts>>
            [] answer = "down" ->
                  /\ FoFail(CrossbarError)
                  /\ UNCHANGED attempts
            [] OTHER ->
                  /\ FoFail(SerdeJsonError)
                  /\ UNCHANGED attempts
    /\ requests' = (requests \ {"crossbar"})
                      \cup (IF foPc' = "Gateway" THEN {"gateway"} ELSE {})
    /\ UNCHANGED <<mode, queue_gateways, gatewayUp, indexed, response, crossbar>>
    /\ UNCHANGED <<cyPc, chainVars, gateway_keys, permits, joinPc, simulations>>
    /\ UNCHANGED <<budgetVars, gmaVars, decVars, subVars, consVars>>

\* utils.rs:309-319 with swb.rs:135-157, and utils.rs:112-152 with
\* swb.rs:314-336: the gateway has answered. Err is an Err of the pass. In
\* consensus mode Ok is returned as it is and the loop breaks with it. In
\* per-oracle mode the responses are first mapped to OracleResponse values
\* inside the fetch function, where a number that does not fit a Decimal or an
\* oracle_pubkey that does not decode panics; else the loop breaks with them.
FoGatewayDone ==
    /\ foPc = "Gateway"
    /\ requests' = requests \ {"gateway"}
    /\ LET gateway == queue_gateways[GatewayIndex(mode, retry) + 1]
       IN  CASE gateway \notin gatewayUp ->
                   /\ FoFail(GatewayError(gateway))
                   /\ UNCHANGED <<response, subVars, consVars>>
             [] gateway \in gatewayUp /\ mode = "consensus" ->
                   /\ price_signatures' \in CycleAttestations
                   /\ response' = Some(gateway)
                   /\ foPc' = "Succeeded"
                   /\ UNCHANGED <<retry, reported, consensus_ix, subVars>>
             [] OTHER ->
                   /\ \E answer \in CycleAnswers :
                         /\ gw_responses' = answer.responses
                         /\ gw_fields' = answer.fields
                   /\ IF OracleResponsesPanic(gw_responses', gw_fields')
                        THEN /\ subPc' = "Panicked"
                             /\ foPc' = "Panicked"
                             /\ UNCHANGED <<response, oracle_responses, response_fields>>
                        ELSE /\ oracle_responses' = OracleResponseValues(gw_responses')
                             /\ response_fields' = OracleResponseFields(gw_fields')
                             /\ subPc' = "built"
                             /\ foPc' = "Succeeded"
                             /\ response' = Some(gateway)
                   /\ UNCHANGED <<retry, reported, submissions, submit_ix, consVars>>
    /\ UNCHANGED <<mode, queue_gateways, gatewayUp, indexed, attempts, crossbar>>
    /\ UNCHANGED <<cyPc, chainVars, gateway_keys, permits, joinPc, simulations>>
    /\ UNCHANGED <<budgetVars, gmaVars, decVars>>

\* ------------------------------------------------------------- one cycle

\* swb.rs:103-104: the two client operations joined by tokio::join!.
JoinOps == {"get_latest_blockhash", "get_slot"}

\* No cycle is under way.
CyIdle ==
    /\ cyPc = "idle"
    /\ queue_oracle_keys = <<>>
    /\ absentKeys = {}
    /\ noGatewayKeys = {}
    /\ malformedKeys = {}
    /\ gateway_keys = <<>>
    /\ permits = {}
    /\ requests = {}
    /\ joinPc = [op \in JoinOps |-> "start"]
    /\ simulations = 0

\* The states of the oracle accounts of a queue of n oracle keys: which keys
\* have no account, which have an account without a gateway_uri and which
\* have an account whose data is not that of an OracleAccountData.
ChainState(defect) ==
    [absent |-> {k \in DOMAIN defect : defect[k] = "absent"},
     no_gateway |-> {k \in DOMAIN defect : defect[k] = "no_gateway"},
     malformed |-> {k \in DOMAIN defect : defect[k] = "malformed"}]

\* At most MaxDefects of the n oracles have an account that is not sound.
ChainStates(n) ==
    UNION {{ChainState(defect) :
               defect \in [unsound -> {"absent", "no_gateway", "malformed"}]} :
           unsound \in {u \in SUBSET (1..n) : Cardinality(u) <= MaxDefects}}

\* swb.rs:86-89: `&oracle_account.data[8..]` and
\* bytemuck::try_from_bytes(bytes_data).unwrap() panic on an account whose
\* data is shorter than 8 bytes or not of the size of OracleAccountData.
ResolverPanics(oracle_accounts, oracle_keys) ==
    \E i \in 1..Min(Len(oracle_accounts), Len(oracle_keys)) :
        /\ oracle_accounts[i] # None
        /\ oracle_accounts[i][1] \in malformedKeys

\* swb.rs:91: oracle_account_data.gateway_uri() of the account of an oracle.
GatewayUri(oracle) == IF oracle \in noGatewayKeys THEN None ELSE Some(oracle)

\* swb.rs:99: Gateway::new(gateway_uri); the handle is named by its uri.
GatewayNew(gateway_uri) == gateway_uri

\* swb.rs:76-100: oracle_accounts zipped with queue_oracle_keys and
\* filter_mapped: a None account and an account without gateway_uri give no
\* entry; every other account gives the gateway built from ITS gateway_uri,
\* beside the oracle_pubkey it was zipped with.
RECURSIVE GatewayResolver(_, _)
GatewayResolver(oracle_accounts, oracle_keys) ==
    IF oracle_accounts = <<>> \/ oracle_keys = <<>> THEN <<>>
    ELSE LET account == Head(oracle_accounts)
             oracle_pubkey == Head(oracle_keys)
             rest == GatewayResolver(Tail(oracle_accounts), Tail(oracle_keys))
         IN  IF account = None THEN rest
             ELSE IF GatewayUri(account[1]) = None THEN rest
             ELSE <<[oracle_pubkey |-> oracle_pubkey,
                     gateway |-> GatewayNew(GatewayUri(account[1])[1])]>> \o rest

\* swb.rs:61: the queue account is loaded and its oracle keys are known; the
\* oracle accounts on chain are in one of ChainStates.
CyQueueLoaded ==
    /\ cyPc = "call_gma"
    /\ queue_oracle_keys \in {KeyList(n) : n \in 0..MaxQueue}
    /\ \E st \in ChainStates(Len(queue_oracle_keys)) :
          /\ absentKeys = st.absent
          /\ noGatewayKeys = st.no_gateway
          /\ malformedKeys = st.malformed
    /\ gateway_keys = <<>>
    /\ permits = {}
    /\ requests = {}
    /\ joinPc = [op \in JoinOps |-> "start"]
    /\ simulations = 0

\* swb.rs:63-64: app_client.get_multiple_accounts(&queue_oracle_keys, None)
CyCallGma ==
    /\ cyPc = "call_gma"
    /\ accounts_pubkey' = queue_oracle_keys
    /\ limit' = None
    /\ gmaPc' = "entry"
    /\ gmaResult' = [ok |-> FALSE, accounts |-> <<>>]
    /\ chunked' = <<>>
    /\ nextChunk' = 1
    /\ inProgress' = {}
    /\ failedChunks' = {}
    /\ multiple_accounts' = <<>>
    /\ cyPc' = "gma"
    /\ UNCHANGED <<chainVars, gateway_keys, permits, requests, joinPc, simulations>>
    /\ UNCHANGED <<budgetVars, foVars, decVars, subVars, consVars>>

\* swb.rs:65-102: the call has returned; Err ends the cycle, Ok(accounts) is
\* resolved into queue_gateways.
CyResolve ==
    /\ cyPc = "gma"
    /\ gmaPc = "done"
    /\ IF ~gmaResult.ok
         THEN /\ cyPc' = "aborted"
              /\ UNCHANGED <<queue_gateways, gateway_keys>>
         ELSE IF ResolverPanics(gmaResult.accounts, queue_oracle_keys)
         THEN /\ cyPc' = "panicked"
              /\ UNCHANGED <<queue_gateways, gateway_keys>>
         ELSE LET resolved == GatewayResolver(gmaResult.accounts, queue_oracle_keys)
              IN  /\ queue_gateways' = [i \in 1..Len(resolved) |-> resolved[i].gateway]
                  /\ gateway_keys' = [i \in 1..Len(resolved) |-> resolved[i].oracle_pubkey]
                  /\ cyPc' = "join"
    /\ UNCHANGED <<chainVars, permits, requests, joinPc, simulations>>
    /\ UNCHANGED <<mode, gatewayUp, retry, foPc, indexed, attempts, response, reported,
                   crossbar>>
    /\ UNCHANGED <<budgetVars, gmaVars, decVars, subVars, consVars>>

\* swb.rs:16-22 and swb.rs:196-202: a cycle starts, in either mode, with the
\* read of the feed account.
CyInit ==
    /\ cyPc = "get_account"
    /\ queue_oracle_keys = <<>>
    /\ absentKeys = {}
    /\ noGatewayKeys = {}
    /\ malformedKeys = {}
    /\ gateway_keys = <<>>
    /\ permits = {}
    /\ requests = {}
    /\ joinPc = [op \in JoinOps |-> "start"]
    /\ simulations = 0

\* The feed account buffers a cycle may read: a well-formed account, one with
\* a foreign discriminator, one cut short inside the record and one cut short
\* inside the discriminator.
CycleBuffers ==
    {DISCRIMINATOR \o [i \in 1..RecordSize |-> 0],
     [i \in 1..(DISCRIMINATOR_LEN + RecordSize) |-> 0],
     DISCRIMINATOR,
     <<>>}

\* The numbers of oracle keys of the queue a cycle may load: none, one, one
\* more than a chunk request holds, and as many as the bound allows, which the
\* per-oracle loop needs to reach a gateway.
CycleQueueSizes == {0, 1, CHUNK_SIZE + 1, MaxQueue}

\* The oracle accounts a cycle may meet: all well, the first oracle without an
\* account, the last oracle without a gateway, or the last oracle with an
\* account of the wrong shape.
CycleChainStates(n) ==
    {ChainState(<<>>)}
      \cup (IF n = 0 THEN {}
            ELSE {ChainState([k \in {1} |-> "absent"]),
                  ChainState([k \in {n} |-> "no_gateway"]),
                  ChainState([k \in {n} |-> "malformed"])})

\* The crossbars of a cycle: each answers every fetch in the same way.
CycleCrossbars == {{answer} : answer \in CrossbarAnswers}

\* The gateways of the list that answer during a cycle: none, only the first,
\* only the last, or all.
CycleGatewaysUp(gateways) ==
    {{}, {gateways[i] : i \in 1..Len(gateways)}}
      \cup (IF gateways = <<>> THEN {}
            ELSE {{gateways[1]}, {gateways[Len(gateways)]}})

\* client.rs:145-146 (get_account): the permit is acquired, then the RPC request
\* is sent.
CyGetAccountSend ==
    /\ cyPc = "get_account"
    /\ available > 0
    /\ available' = available - 1
    /\ held' = held + 1
    /\ admitted' = Admit(admitted)
    /\ permits' = permits \cup {"get_account"}
    /\ requests' = requests \cup {"get_account"}
    /\ cyPc' = "get_account_sent"
    /\ UNCHANGED <<waiting, mark, tickPc, to_add>>
    /\ UNCHANGED <<chainVars, gateway_keys, joinPc, simulations>>
    /\ UNCHANGED <<gmaVars, foVars, decVars, subVars, consVars>>

\* client.rs:146-149 and swb.rs:19-30, 199-210: the request returns, _permit is
\* dropped; Err ends the cycle, Ok hands the account's bytes to the decoder.
CyGetAccountDone ==
    /\ cyPc = "get_account_sent"
    /\ requests' = requests \ {"get_account"}
    /\ permits' = permits \ {"get_account"}
    /\ AddPermits(1, held - 1)
    /\ \E rpcOk \in BOOLEAN :
          IF rpcOk
            THEN /\ data' \in CycleBuffers
                 /\ decResult' = None
                 /\ cyPc' = "parse"
            ELSE /\ UNCHANGED decVars
                 /\ cyPc' = "aborted"
    /\ UNCHANGED <<admitted, tickPc, to_add>>
    /\ UNCHANGED <<chainVars, gateway_keys, joinPc, simulations>>
    /\ UNCHANGED <<gmaVars, foVars, subVars, consVars>>

\* swb.rs:32-40, 212-220: parse_swb_ignore_alignment; Err ends the cycle, a
\* panic unwinds the task.
CyParse ==
    /\ cyPc = "parse"
    /\ decResult' = Some(ParseSwb(data))
    /\ cyPc' = CASE ParseSwb(data).kind = "Ok" -> "queue_load"
                 [] ParseSwb(data).kind = "Err" -> "aborted"
                 [] OTHER -> "panicked"
    /\ UNCHANGED data
    /\ UNCHANGED <<chainVars, gateway_keys, permits, requests, joinPc, simulations>>
    /\ UNCHANGED <<budgetVars, gmaVars, foVars, subVars, consVars>>

\* swb.rs:50-51, 230-231: QueueAccountData::load(app_client.rpc_client(), ..):
\* the RPC request is sent on the bare rpc client; the semaphore is not touched.
CyQueueLoadSend ==
    /\ cyPc = "queue_load"
    /\ requests' = requests \cup {"queue_load"}
    /\ cyPc' = "queue_load_sent"
    /\ UNCHANGED <<chainVars, gateway_keys, permits, joinPc, simulations>>
    /\ UNCHANGED <<budgetVars, gmaVars, foVars, decVars, subVars, consVars>>

\* swb.rs:51-61, 231-241: the load returns; Err ends the cycle, Ok gives the
\* queue's oracle keys.
CyQueueLoadDone ==
    /\ cyPc = "queue_load_sent"
    /\ requests' = requests \ {"queue_load"}
    /\ \E rpcOk \in BOOLEAN :
          IF rpcOk
            THEN /\ queue_oracle_keys' \in {KeyList(n) : n \in CycleQueueSizes}
                 /\ \E st \in CycleChainStates(Len(queue_oracle_keys')) :
                       /\ absentKeys' = st.absent
                       /\ noGatewayKeys' = st.no_gateway
                       /\ malformedKeys' = st.malformed
                 /\ cyPc' = "call_gma"
            ELSE /\ UNCHANGED chainVars
                 /\ cyPc' = "aborted"
    /\ UNCHANGED <<gateway_keys, permits, joinPc, simulations>>
    /\ UNCHANGED <<budgetVars, gmaVars, foVars, decVars, subVars, consVars>>

\* swb.rs:107-108 with client.rs:152-153, 202-203: tokio::join! runs
\* get_latest_blockhash and get_slot concurrently; each acquires a permit and
\* then sends its RPC request.
CyJoinSend ==
    /\ cyPc = "join"
    /\ \E op \in JoinOps :
          /\ joinPc[op] = "start"
          /\ joinPc' = [joinPc EXCEPT ![op] = "sent"]
          /\ permits' = permits \cup {op}
          /\ requests' = requests \cup {op}
    /\ available > 0
    /\ available' = available - 1
    /\ held' = held + 1
    /\ admitted' = Admit(admitted)
    /\ UNCHANGED <<waiting, mark, tickPc, to_add>>
    /\ UNCHANGED <<cyPc, chainVars, gateway_keys, simulations>>
    /\ UNCHANGED <<gmaVars, foVars, decVars, subVars, consVars>>

\* A branch that keeps its permit when its request fails.
CyJoinDoneLeakOnErr ==
    /\ cyPc = "join"
    /\ \E op \in JoinOps, rpcOk \in BOOLEAN :
          /\ joinPc[op] = "sent"
          /\ joinPc' = [joinPc EXCEPT ![op] = IF rpcOk THEN "ok" ELSE "err"]
          /\ permits' = permits \ {op}
          /\ requests' = requests \ {op}
          /\ IF rpcOk THEN AddPermits(1, held - 1)
                      ELSE UNCHANGED <<available, held, waiting, mark>>
    /\ UNCHANGED <<admitted, tickPc, to_add>>
    /\ UNCHANGED <<cyPc, chainVars, gateway_keys, simulations>>
    /\ UNCHANGED <<gmaVars, foVars, decVars, subVars, consVars>>

\* client.rs:153-156, 203-206: the request of one branch returns, Ok or Err,
\* and its _permit is dropped.
CyJoinDone ==
    /\ cyPc = "join"
    /\ \E op \in JoinOps, rpcOk \in BOOLEAN :
          /\ joinPc[op] = "sent"
          /\ joinPc' = [joinPc EXCEPT ![op] = IF rpcOk THEN "ok" ELSE "err"]
          /\ permits' = permits \ {op}
          /\ requests' = requests \ {op}
    /\ AddPermits(1, held - 1)
    /\ UNCHANGED <<admitted, tickPc, to_add>>
    /\ UNCHANGED <<cyPc, chainVars, gateway_keys, simulations>>
    /\ UNCHANGED <<gmaVars, foVars, decVars, subVars, consVars>>

\* swb.rs:104-126, 284-306: both branches are done; an Err of either ends the
\* cycle, else the failover loop is entered with retry = 0.
CyJoinEnd ==
    /\ cyPc = "join"
    /\ \A op \in JoinOps : joinPc[op] \in {"ok", "err"}
    /\ IF \A op \in JoinOps : joinPc[op] = "ok"
         THEN /\ cyPc' = "loop"
              /\ foPc' = "Attempting"
              /\ gatewayUp' \in
                    CycleGatewaysUp(queue_gateways)
              /\ crossbar' \in CycleCrossbars
         ELSE /\ cyPc' = "aborted"
              /\ UNCHANGED <<foPc, gatewayUp, crossbar>>
    /\ retry' = 0
    /\ indexed' = <<>>
    /\ attempts' = <<>>
    /\ response' = None
    /\ reported' = None
    /\ UNCHANGED <<mode, queue_gateways>>
    /\ UNCHANGED <<chainVars, gateway_keys, permits, requests, joinPc, simulations>>
    /\ UNCHANGED <<budgetVars, gmaVars, decVars, subVars, consVars>>

\* swb.rs:135-158, 314-337: the loop is left: by return once every retry is
\* used up, by break with the gateway's response, or by a panic inside a pass.
CyLoopEnd ==
    /\ cyPc = "loop"
    /\ foPc \in {"Succeeded", "Exhausted", "Panicked"}
    /\ cyPc' = CASE foPc = "Succeeded" -> "build"
                 [] foPc = "Exhausted" -> "aborted"
                 [] OTHER -> "panicked"
    /\ UNCHANGED <<chainVars, gateway_keys, permits, requests, joinPc, simulations>>
    /\ UNCHANGED <<budgetVars, gmaVars, foVars, decVars, subVars, consVars>>

\* swb.rs:160-171 (get_update_consensus_ix on the attestation the loop broke
\* with; Err ends the cycle) and, for per-oracle mode, swb.rs:339-345
\* (get_solana_submit_signatures_ix on the oracle responses the loop broke
\* with, which returns the instruction itself).
CyBuild ==
    /\ cyPc = "build"
    /\ IF mode = "consensus"
         THEN /\ \E refused \in BOOLEAN :
                    consensus_ix' = Some(GetUpdateConsensusIx(price_signatures, refused))
              /\ cyPc' = CASE consensus_ix'[1].kind = "Ok" -> "simulate"
                           [] consensus_ix'[1].kind = "Err" -> "aborted"
                           [] OTHER -> "panicked"
              /\ UNCHANGED <<price_signatures, subVars>>
         ELSE /\ submissions' =
                     [i \in 1..Len(oracle_responses) |->
                         SubmissionValue(oracle_responses[i])]
              /\ submit_ix' = Some(GetSolanaSubmitSignaturesIx(
                                       oracle_responses, response_fields))
              /\ subPc' = "encoded"
              /\ cyPc' = "simulate"
              /\ UNCHANGED <<gw_responses, gw_fields, oracle_responses, response_fields>>
              /\ UNCHANGED consVars
    /\ UNCHANGED <<chainVars, gateway_keys, permits, requests, joinPc, simulations>>
    /\ UNCHANGED <<budgetVars, gmaVars, foVars, decVars>>

\* client.rs:34-80 (call_instructions): the transaction is built and signed,
\* which may fail (`?`), and simulate_transaction is sent on rpc_client; the
\* function never touches the semaphore.
CySimulateSend ==
    /\ cyPc = "simulate"
    /\ \E built \in BOOLEAN :
          IF built
            THEN /\ requests' = requests \cup {"call_instructions"}
                 /\ simulations' = simulations + 1
                 /\ cyPc' = "simulate_sent"
            ELSE /\ UNCHANGED <<requests, simulations>>
                 /\ cyPc' = "aborted"
    /\ UNCHANGED <<chainVars, gateway_keys, permits, joinPc>>
    /\ UNCHANGED <<budgetVars, gmaVars, foVars, decVars, subVars, consVars>>

\* A cycle that simulates again after a failed simulation.
CySimulateDoneRetry ==
    /\ cyPc = "simulate_sent"
    /\ requests' = requests \ {"call_instructions"}
    /\ \E rpcOk \in BOOLEAN : cyPc' = IF rpcOk THEN "done" ELSE "simulate"
    /\ UNCHANGED <<chainVars, gateway_keys, permits, joinPc, simulations>>
    /\ UNCHANGED <<budgetVars, gmaVars, foVars, decVars, subVars, consVars>>

\* client.rs:77-81 and swb.rs:173-193, 347-366: the simulation request
\* returns; Err is logged as a failure, Ok as success, and the cycle ends.
CySimulateDone ==
    /\ cyPc = "simulate_sent"
    /\ requests' = requests \ {"call_instructions"}
    /\ \E rpcOk \in BOOLEAN : cyPc' = IF rpcOk THEN "done" ELSE "aborted"
    /\ UNCHANGED <<chainVars, gateway_keys, permits, joinPc, simulations>>
    /\ UNCHANGED <<budgetVars, gmaVars, foVars, decVars, subVars, consVars>>

\* --------------------------------------------------------- specifications

FetchInit == BudgetInit /\ GmaInit /\ FoIdle /\ DecIdle /\ SubIdle /\ ConsIdle /\ CyIdle

FetchNext ==
    \/ GmaEmpty
    \/ GmaAcquire
    \/ GmaDispatch
    \/ GmaChunkDone
    \/ GmaReturn

\* One call of get_multiple_accounts on a fresh client.
FetchSpec == FetchInit /\ [][FetchNext]_vars

FailoverInit == BudgetInit /\ GmaIdle /\ FoInit /\ DecIdle /\ SubIdle /\ ConsIdle /\ CyIdle

FailoverNext ==
    \/ FoIndexPanic
    \/ FoCrossbarSend
    \/ FoCrossbarDone
    \/ FoGatewayDone

\* One run of the failover loop of either submission mode.
FailoverSpec == FailoverInit /\ [][FailoverNext]_vars

BudgetSpecInit == BudgetInit /\ GmaIdle /\ FoIdle /\ DecIdle /\ SubIdle /\ ConsIdle /\ CyIdle

BudgetNext ==
    \/ OpAcquire
    \/ OpWait
    \/ OpFinish
    \/ TickRead
    \/ TickAdd

\* The semaphore under concurrent operations and the replenishing task.
BudgetSpec == BudgetSpecInit /\ [][BudgetNext]_vars

\* The same, with the replenishing task scheduled fairly: the runtime keeps
\* polling the spawned task, whose interval fires every period.
BudgetLiveSpec ==
    BudgetSpec /\ WF_vars(TickRead) /\ WF_vars(TickAdd)

DecodeInit == BudgetInit /\ GmaIdle /\ FoIdle /\ DecInit /\ SubIdle /\ ConsIdle /\ CyIdle

DecodeNext == DecParse

\* One call of the feed decoder on an arbitrary buffer.
DecodeSpec == DecodeInit /\ [][DecodeNext]_vars

SubmitInit == BudgetInit /\ GmaIdle /\ FoIdle /\ DecIdle /\ SubInit /\ ConsIdle /\ CyIdle

SubmitNext ==
    \/ SubBuild
    \/ SubEncode

\* Per-oracle mode from the gateway's answer to the submission values.
SubmitSpec == SubmitInit /\ [][SubmitNext]_vars

ConsensusInit == BudgetInit /\ GmaIdle /\ FoIdle /\ DecIdle /\ SubIdle /\ ConsInit /\ CyIdle

ConsensusNext == ConsBuild

\* Consensus mode from the gateway's attestation to the instruction pair.
ConsensusSpec == ConsensusInit /\ [][ConsensusNext]_vars

\* The oracle accounts of the queue are fetched and resolved into gateways.
ResolveInit ==
    BudgetInit /\ GmaIdle /\ FoIdle /\ DecIdle /\ SubIdle /\ ConsIdle /\ CyQueueLoaded

ResolveNext ==
    \/ CyCallGma
    \/ GmaEmpty
    \/ GmaAcquire
    \/ GmaDispatch
    \/ GmaChunkDone
    \/ GmaReturn
    \/ CyResolve

ResolveSpec == ResolveInit /\ [][ResolveNext]_vars

\* One cycle of either mode, from the read of the feed account to the
\* simulation of the submission, beside the replenishing task.
CycleInit ==
    /\ BudgetInit /\ GmaIdle /\ DecIdle /\ SubIdle /\ ConsIdle /\ CyInit
    /\ mode \in {"consensus", "per_oracle"}
    /\ FoLoopIdle

CycleNext ==
    \/ TickRead
    \/ TickAdd
    \/ CyGetAccountSend
    \/ CyGetAccountDone
    \/ CyParse
    \/ CyQueueLoadSend
    \/ CyQueueLoadDone
    \/ CyCallGma
    \/ GmaEmpty
    \/ GmaAcquire
    \/ GmaDispatch
    \/ GmaChunkDone
    \/ GmaReturn
    \/ CyResolve
    \/ CyJoinSend
    \/ CyJoinDone
    \/ CyJoinEnd
    \/ FoIndexPanic
    \/ FoCrossbarSend
    \/ FoCrossbarDone
    \/ FoGatewayDone
    \/ CyLoopEnd
    \/ CyBuild
    \/ CySimulateSend
    \/ CySimulateDone

CycleSpec == CycleInit /\ [][CycleNext]_vars

\* ------------------------------------------- claims: get_multiple_accounts

\* The chunk (1-based, in dispatch order) that carries the key at position j.
ChunkOf(j) == ((j - 1) \div CHUNK_SIZE) + 1

\* The fetch result of the key at position j: absent when its chunk's request
\* failed, the account under that key otherwise.
FetchOf(j) ==
    IF ChunkOf(j) \in failedChunks THEN None ELSE Some(accounts_pubkey[j])

\* C1: for every key list of length L >= 0 and every set of failing chunks, a
\* call of get_multiple_accounts that has returned has returned Ok with a
\* result of length exactly L.
C1_ResultLength ==
    gmaPc = "done" =>
        /\ gmaResult.ok
        /\ Len(gmaResult.accounts) = Len(accounts_pubkey)

\* C1 witness: a call with 12 keys has returned although two of its three
\* chunk requests failed.
C1_Witness ==
    /\ gmaPc = "done"
    /\ Len(accounts_pubkey) = 12
    /\ Cardinality(failedChunks) = 2

\* C2: when the call has returned, the entry at every result index j is the
\* fetch result of input key j, whatever the order the chunks completed in.
C2_InputOrder ==
    gmaPc = "done" =>
        \A j \in 1..Len(accounts_pubkey) :
            /\ j <= Len(gmaResult.accounts)
            /\ gmaResult.accounts[j] = FetchOf(j)

\* C3: when exactly one chunk's request failed, the call returns Ok, exactly
\* the positions of that chunk's keys are absent and every other position
\* holds the account of its own key.
C3_OneChunkFails ==
    (gmaPc = "done" /\ Cardinality(failedChunks) = 1) =>
        /\ gmaResult.ok
        /\ \A j \in 1..Len(accounts_pubkey) :
              /\ j <= Len(gmaResult.accounts)
              /\ (gmaResult.accounts[j] = None) <=> (ChunkOf(j) \in failedChunks)
              /\ ChunkOf(j) \notin failedChunks =>
                     gmaResult.accounts[j] = Some(accounts_pubkey[j])

\* ------------------------------------------------ claims: gateway failover

\* The loop has ended, one way or another.
FoEnded == foPc \in {"Succeeded", "Exhausted", "Panicked"}

\* The first position (0-based) of the list whose gateway answers.
FirstUp ==
    CHOOSE k \in 0..(Len(queue_gateways) - 1) :
        /\ queue_gateways[k + 1] \in gatewayUp
        /\ \A q \in 0..(k - 1) : queue_gateways[q + 1] \notin gatewayUp

\* The crossbar serves the jobs at every fetch, so that a pass fails only when
\* its gateway fails.
CrossbarSound == crossbar = {"jobs"}

\* C4: with gateways 0..k-1 failing and gateway k answering, the loop ends in
\* Succeeded with gateway k's response after exactly k+1 attempts; with all M
\* gateways failing it ends in Exhausted after exactly M attempts.
C4_FailoverOutcome ==
    (FoEnded /\ CrossbarSound) =>
        IF gatewayUp = {}
          THEN /\ foPc = "Exhausted"
               /\ Len(attempts) = Len(queue_gateways)
          ELSE /\ foPc = "Succeeded"
               /\ response = Some(queue_gateways[FirstUp + 1])
               /\ Len(attempts) = FirstUp + 1

\* C5: with an empty gateway list the loop ends in Exhausted after zero
\* attempts and never indexes into the list.
C5_EmptyListExhausts ==
    (Len(queue_gateways) = 0 /\ FoEnded) =>
        /\ foPc = "Exhausted"
        /\ attempts = <<>>
        /\ indexed = <<>>

\* C6: in both modes the n-th pass of the loop (state Attempting(n-1)) uses
\* the gateway at position n-1, counted from 0, and that position is less
\* than M.
C6_PositionIsAttemptNumber ==
    \A n \in 1..Len(indexed) :
        /\ indexed[n] = n - 1
        /\ indexed[n] < Len(queue_gateways)

\* C7: within one run of the loop no gateway receives more than one request.
C7_NoGatewayTwice ==
    \A a, b \in 1..Len(attempts) :
        a # b => queue_gateways[attempts[a] + 1] # queue_gateways[attempts[b] + 1]

\* C7 witness: a run in per-oracle mode has sent a second request after the
\* first gateway it asked failed.
C7_Witness ==
    /\ mode = "per_oracle"
    /\ Len(attempts) = 2
    /\ queue_gateways[attempts[1] + 1] \notin gatewayUp

\* ---------------------------------------------------- claims: rate budget

\* C8: the number of permits held by in-flight operations never exceeds the
\* capacity.
C8_HeldAtMostCapacity == held <= rqs_rate

\* C9: the available permit count always lies between 0 and the capacity.
C9_AvailableInRange == 0 <= available /\ available <= rqs_rate

\* C10: every completion of a refill tick leaves the available permit count
\* equal to the capacity.
C10_TickRestoresCapacity == [][TickAdd => available' = rqs_rate]_vars

\* C19: between two consecutive refill ticks the budget admits at most
\* capacity operations.
C19_AdmittedPerWindow == admitted <= rqs_rate

\* C20: an operation that found no permit and waits in acquire() is
\* eventually granted one, the replenishing task being scheduled fairly.
C20_WaiterGranted == (mark > 0) ~> (mark = 0)

\* C20 witness: an operation waits with no permit available while the
\* replenishing task is about to add permits.
C20_Witness ==
    /\ mark > 0
    /\ available = 0
    /\ tickPc = "add"
    /\ to_add > 0

\* C18: at most K chunk requests are in flight at any moment of a call with
\* concurrency limit K, K being 5 when no limit is given.
C18_InFlightBound ==
    /\ limit = None => Cardinality(inProgress) <= 5
    /\ limit # None => Cardinality(inProgress) <= limit[1]

\* C18 witness: with no limit given, five chunk requests are in flight and a
\* sixth chunk is held back.
C18_Witness ==
    /\ limit = None
    /\ Cardinality(inProgress) = 5
    /\ nextChunk <= Len(chunked)

\* ---------------------------------------------------- claims: feed decoder

\* The buffer is shorter than the discriminator or does not start with it.
BadHeader ==
    \/ Len(data) < 8
    \/ SubSeq(data, 1, 8) # DISCRIMINATOR

\* C12: decoding a buffer of fewer than 8 bytes, or one whose first 8 bytes
\* are not the feed discriminator, returns the invalid-account error without
\* reaching the slice and read of the fixed-layout record.
C12_BadHeaderRejected ==
    (decResult # None /\ BadHeader) =>
        /\ decResult[1].kind = "Err"
        /\ decResult[1].error = "SwitchboardInvalidAccount"
        /\ decResult[1].stage \in {"length", "discriminator"}

\* C12 witness: a buffer long enough for a record, with a wrong discriminator,
\* has been decoded.
C12_Witness ==
    /\ decResult # None
    /\ Len(data) >= 8 + RecordSize
    /\ SubSeq(data, 1, 8) # DISCRIMINATOR

\* ------------------------------------------- claims: per-oracle submission

\* C13: an oracle response without a value is encoded as the maximum signed
\* integer, never as zero, and a response whose value is zero is encoded as 0.
C13_SentinelNotZero ==
    subPc = "encoded" =>
        \A i \in 1..Len(gw_responses) :
            /\ (oracle_responses[i] = None \/ gw_responses[i] = NotANumber) =>
                   (submissions[i] = I128_MAX /\ submissions[i] # 0)
            /\ gw_responses[i] = IntString(0) => submissions[i] = 0

\* C13 witness: an answer with a missing value and a value of zero has been
\* encoded.
C13_Witness ==
    /\ subPc = "encoded"
    /\ Len(gw_responses) = 2
    /\ gw_responses[1] = NotANumber
    /\ gw_responses[2] = IntString(0)

\* C14: every signed mantissa X a gateway reports is built into an oracle
\* response and encoded into a submission whose value is X.
C14_RoundTrip ==
    \A i \in 1..Len(gw_responses) :
        ParseI128(gw_responses[i]) # None =>
            /\ subPc # "Panicked"
            /\ subPc = "encoded" => submissions[i] = ParseI128(gw_responses[i])[1]

\* ------------------------------------------------ claims: consensus mode

\* The call has returned the instruction pair.
ConsBuilt == consensus_ix # None /\ consensus_ix[1].kind = "Ok"

\* C15 as stated: the submission instruction carries one value per
\* participating oracle: as many values as the signature batch has tuples.
C15_ValuePerOracle ==
    ConsBuilt =>
        Len(consensus_ix[1].value[2].values) =
            Len(consensus_ix[1].value[1].signatures)

\* C15 as amended: the submission instruction carries one value per median
\* response of the attestation, in the order of the median responses
\* (i128::MAX for a value that is no i128), and the signature batch carries
\* one tuple per oracle response, in the order of the oracle responses; the
\* two lists need not be equally long.
C15_ValuePerMedianResponse ==
    ConsBuilt =>
        LET values == consensus_ix[1].value[2].values
            signatures == consensus_ix[1].value[1].signatures
        IN  /\ Len(values) = Len(price_signatures.median_responses)
            /\ \A j \in 1..Len(values) :
                  values[j] =
                      IF price_signatures.median_responses[j][1] = "int"
                           /\ price_signatures.median_responses[j][2] >= -(I128_MAX + 1)
                           /\ price_signatures.median_responses[j][2] <= I128_MAX
                        THEN price_signatures.median_responses[j][2]
                        ELSE I128_MAX
            /\ Len(signatures) = Len(price_signatures.oracle_responses)
            /\ \A j \in 1..Len(signatures) :
                  signatures[j] = <<"secp", price_signatures.oracle_responses[j].oracle>>

\* C15 witness: an instruction pair built from one median response, which is
\* no number, and two oracle responses of different oracles.
C15_Witness ==
    /\ ConsBuilt
    /\ price_signatures.median_responses = <<NotANumber>>
    /\ Len(price_signatures.oracle_responses) = 2
    /\ price_signatures.oracle_responses[1].oracle #
           price_signatures.oracle_responses[2].oracle

\* C17: an oracle key without an account or without a gateway is skipped
\* without failing the resolution; the resolved gateways are in the relative
\* order of the queue's oracle keys, and each is the gateway of the oracle key
\* it is paired with.
Resolved == cyPc = "join"

PositionOf(oracle) ==
    CHOOSE i \in 1..Len(queue_oracle_keys) : queue_oracle_keys[i] = oracle

\* The oracle whose account holds the gateway uri.
OracleOf(gateway) == gateway

C17_ResolverOrder ==
    /\ (cyPc = "gma" /\ gmaPc = "done") => gmaResult.ok
    /\ Resolved =>
          /\ \A i \in 1..Len(queue_gateways) :
                /\ OracleOf(queue_gateways[i]) \notin absentKeys \cup noGatewayKeys
                /\ queue_gateways[i] = GatewayNew(gateway_keys[i])
          /\ \A i, j \in 1..Len(queue_gateways) :
                i < j => PositionOf(OracleOf(queue_gateways[i]))
                            < PositionOf(OracleOf(queue_gateways[j]))

\* The same, for a queue whose oracle keys fit one chunk request.
C17_OneChunk == Len(queue_oracle_keys) <= CHUNK_SIZE => C17_ResolverOrder

\* The client operation that issues each RPC request in flight; the requests
\* to the crossbar and to a gateway are no RPC requests.
RequestsInFlight ==
    (requests \ {"crossbar", "gateway"})
        \cup (IF inProgress # {} THEN {"get_multiple_accounts"} ELSE {})

\* The client operations whose permit is alive.
PermitHolders ==
    permits \cup (IF gmaPc = "stream" THEN {"get_multiple_accounts"} ELSE {})

\* C11: every RPC request in flight was issued by an operation that acquired
\* a permit of the budget before it and still holds it.
C11_RequestHoldsPermit == RequestsInFlight \subseteq PermitHolders

\* The same, for the operations that go through the semaphore.
C11_ClientReadsHoldPermit ==
    /\ RequestsInFlight \ {"queue_load", "call_instructions"} \subseteq PermitHolders
    /\ held = Cardinality(PermitHolders)

\* ------------------------------------------- claims: exhaustion of the loop

\* C21: when all M gateways fail, the loop ends in Exhausted and the failure
\* it reports is the error of the last gateway of the list (attempt M), not
\* an earlier one.
C21_ExhaustedReportsLast ==
    (FoEnded /\ gatewayUp = {} /\ CrossbarSound) =>
        /\ foPc = "Exhausted"
        /\ Len(queue_gateways) > 0 =>
              reported = Some(GatewayError(queue_gateways[Len(queue_gateways)]))

\* The same, for consensus mode with at least one gateway.
C21_ConsensusReportsLast ==
    (mode = "consensus" /\ Len(queue_gateways) > 0) => C21_ExhaustedReportsLast

\* ---------------------------------------- claims: per-oracle instruction

\* The instruction has been built.
SubEncoded == subPc = "encoded" /\ submit_ix # None

\* The number of fixed accounts of the per-oracle instruction.
FixedAccounts == Len(SubmitResponseFields)

\* C22: for N oracle responses the payload holds exactly N submission
\* records in response order, and the account list is the fixed accounts
\* followed by exactly N (read-only oracle, writable stats) pairs in the same
\* order: record j and pair j belong to the same oracle.
C22_RecordsAndPairs ==
    SubEncoded =>
        LET ix == submit_ix[1]
            N == Len(response_fields)
        IN  /\ Len(oracle_responses) = N
            /\ Len(ix.submissions) = N
            /\ Len(ix.accounts) = FixedAccounts + 2 * N
            /\ SubSeq(ix.accounts, 1, FixedAccounts) = ToAccountMetas(SubmitResponseFields)
            /\ \A j \in 1..N :
                  /\ ix.submissions[j].signature = response_fields[j].signature
                  /\ ix.submissions[j].value = submissions[j]
                  /\ ix.accounts[FixedAccounts + 2 * j - 1] =
                         [pubkey |-> OracleKey(response_fields[j].oracle),
                          is_signer |-> FALSE, is_writable |-> FALSE]
                  /\ ix.accounts[FixedAccounts + 2 * j] =
                         [pubkey |-> StatsKey(response_fields[j].oracle),
                          is_signer |-> FALSE, is_writable |-> TRUE]

\* C22 witness: an instruction built from two responses whose oracles are not
\* in rising key order.
C22_Witness ==
    /\ SubEncoded
    /\ Len(response_fields) = 2
    /\ response_fields[1].oracle > response_fields[2].oracle
    /\ Len(submit_ix[1].accounts) = FixedAccounts + 4

\* ------------------------------------------ claims: consensus instructions

\* C23: a successful build returns exactly two instructions, the signature
\* verification first and the submission second, and the dynamic accounts of
\* the submission are the feed, the first oracle of the signature batch and
\* that oracle's stats account, however many oracles take part.
C23_TwoInstructionsFirstOracle ==
    ConsBuilt =>
        LET ixs == consensus_ix[1].value
            fixed == Len(ConsensusResponseFields)
            first == price_signatures.oracle_responses[1].oracle
        IN  /\ Len(ixs) = 2
            /\ ixs[1].program = "secp256k1"
            /\ ixs[1].signatures[1] = SecpSignature(price_signatures.oracle_responses[1])
            /\ ixs[2].program = "on_demand"
            /\ SubSeq(ixs[2].accounts, 1, fixed) = ToAccountMetas(ConsensusResponseFields)
            /\ SubSeq(ixs[2].accounts, fixed + 1, Len(ixs[2].accounts)) =
                   <<[pubkey |-> <<"feed", 0>>, is_signer |-> FALSE, is_writable |-> TRUE],
                     [pubkey |-> OracleKey(first), is_signer |-> FALSE, is_writable |-> FALSE],
                     [pubkey |-> StatsKey(first), is_signer |-> FALSE, is_writable |-> TRUE]>>

\* C23 witness: a pair of instructions built from the responses of two
\* different oracles.
C23_Witness ==
    /\ ConsBuilt
    /\ Len(price_signatures.oracle_responses) = 2
    /\ price_signatures.oracle_responses[1].oracle #
           price_signatures.oracle_responses[2].oracle
    /\ Len(consensus_ix[1].value[1].signatures) = 2

\* An oracle response with an address, signature or checksum field that does
\* not decode to its fixed length.
UndecodableField(r) == r.defect \in {"eth_address", "signature", "checksum"}

\* C24: if the address, signature or checksum of any one participating oracle
\* does not decode, get_update_consensus_ix returns the attestation-parse
\* error and no instruction, even when the other oracles' fields are sound.
C24_BadFieldIsError ==
    (/\ consensus_ix # None
     /\ \E j \in 1..Len(price_signatures.oracle_responses) :
           UndecodableField(price_signatures.oracle_responses[j])) =>
        /\ consensus_ix[1].kind = "Err"
        /\ consensus_ix[1].error = "ParsingError"
        /\ consensus_ix[1].value = <<>>

\* C24 witness: the call was handed two oracle responses, the first sound and
\* the second with a signature that does not decode.
C24_Witness ==
    /\ consensus_ix # None
    /\ Len(price_signatures.oracle_responses) = 2
    /\ price_signatures.oracle_responses[1].defect = "none"
    /\ price_signatures.oracle_responses[2].defect = "signature"

\* ------------------------------------------------- claims: the whole cycle

\* The cycle has ended by return.
CyReturned == cyPc \in {"done", "aborted"}

\* C25: the simulation is requested at most once in a cycle and only after
\* the failover loop has reached Succeeded; once it has been requested there
\* is no further gateway attempt, and after a failed simulation the cycle has
\* ended and stays ended.
C25_SimulateOnceAfterSuccess ==
    [][/\ simulations' # simulations =>
             (simulations = 0 /\ simulations' = 1 /\ foPc = "Succeeded")
       /\ simulations > 0 => (attempts' = attempts /\ indexed' = indexed)
       /\ (cyPc = "simulate_sent" /\ cyPc' # cyPc) => cyPc' \in {"done", "aborted"}
       /\ CyReturned => (cyPc' = cyPc /\ simulations' = simulations)]_vars

\* C25 witness: the one simulation of a cycle has failed and the cycle has
\* ended with it.
C25_Witness ==
    /\ cyPc = "aborted"
    /\ simulations = 1
    /\ requests = {}

\* C26: no step of a cycle can panic.
C26_NoPanic == cyPc # "panicked"

\* C28: the permits held are exactly those of the permit-holding operations
\* in flight, every permit taken is given back when its operation finishes,
\* on success and on error, and none is lost to the budget.
C28_PermitConservation ==
    /\ held = Cardinality(PermitHolders)
    /\ available + held >= rqs_rate
    /\ (cyPc \in {"done", "aborted", "panicked"}) => held = 0

\* C28 witness: in the join, one operation has finished with an error and has
\* given its permit back while the other still holds its own.
C28_Witness ==
    /\ cyPc = "join"
    /\ \E op \in JoinOps : joinPc[op] = "err"
    /\ \E op \in JoinOps : joinPc[op] = "sent"
    /\ held = 1

\* ------------------------------------------------ claims: decoder, chunks

\* C27: the decoder is total: for every byte buffer, also one with the right
\* discriminator and fewer than 8 + record-size bytes, it returns a decoded
\* record or the invalid-account error.
C27_DecoderTotal ==
    (decResult # None) =>
        \/ decResult[1].kind = "Ok"
        \/ (decResult[1].kind = "Err"
              /\ decResult[1].error = "SwitchboardInvalidAccount")

\* The same, for buffers that are not cut short after a right discriminator.
C27_TotalOnWholeBuffers ==
    (Len(data) < DISCRIMINATOR_LEN
       \/ SubSeq(data, 1, DISCRIMINATOR_LEN) # DISCRIMINATOR
       \/ Len(data) >= DISCRIMINATOR_LEN + RecordSize) => C27_DecoderTotal

\* ceil(n / CHUNK_SIZE)
CeilChunks(n) == (n + CHUNK_SIZE - 1) \div CHUNK_SIZE

\* C29: for L keys the call issues exactly ceil(L/5) chunk requests, each of
\* 1 to 5 keys, whose concatenation in dispatch order is the input list; for
\* L = 0 it issues no request and acquires no permit.
C29_ChunkRequests ==
    gmaPc = "done" =>
        /\ nextChunk - 1 = CeilChunks(Len(accounts_pubkey))
        /\ \A c \in 1..(nextChunk - 1) :
              1 <= Len(chunked[c]) /\ Len(chunked[c]) <= CHUNK_SIZE
        /\ Flatten(SubSeq(chunked, 1, nextChunk - 1)) = accounts_pubkey
        /\ Len(accounts_pubkey) = 0 => (admitted = 0 /\ held = 0)

\* The same, for key lists whose length is no multiple of the chunk size.
C29_NoEmptyRemainder ==
    (Len(accounts_pubkey) = 0 \/ Len(accounts_pubkey) % CHUNK_SIZE # 0)
        => C29_ChunkRequests

====
